---- MODULE Spec2Model ----
(***************************************************************************)
(* Model of RCTMotionManager (the Objective-C part of src/Video.js): the   *)
(* gravity smoother, the lock-angle quantizer, the Free / Locked /         *)
(* Unlocking state machine and the display-link driven unlock animation.   *)
(*                                                                         *)
(* Doubles are modelled in fixed point over the integers:                  *)
(*   angles and the spring factor  in 1/AngleScale   (1e-4 rad),           *)
(*   gravity components            in 1/GravityScale (1e-3 g),             *)
(*   time                          in 1/TicksPerSecond seconds.            *)
(* atan2, sin, cos and exp2 are computed (CORDIC, Taylor series), not      *)
(* tabulated, and every intermediate stays below 2^31.                     *)
(***************************************************************************)
EXTENDS Integers, Sequences, FiniteSets, TLC

(***************************************************************************)
(* Units and bounds                                                        *)
(***************************************************************************)
AngleScale == 10000
GravityScale == 1000
TicksPerSecond == 2

\* Bounds of the model (not program constants).
MaxElapsed == 4
MaxSensorTicks == 2
MaxSamplers == 2
\* Number of grid points of the raw angles given to the quantizer harness.
QGrid == 36

(***************************************************************************)
(* Program constants                                                       *)
(***************************************************************************)
kMaxLockAngle == -2090
\* Mutant: the lower lock angle is eight times the upper one (-1.672).
MutMinLockAngleEightfold == 8 * kMaxLockAngle

kMinLockAngle == -60740
\* M_PI, in 1e-4 rad and (for the CORDIC accumulator) in 1e-7 rad.
Pi == 31416
PiFine == 31415927
\* minDecay = 0.15, as a fraction of GravityScale.
minDecay == 150
\* The 0.2 threshold of isFlatWithGravity:.
FlatThreshold == 200
\* The initial value -1 of lastX and lastY.
LastInit == -1000
\* The 1.0 second of "timeElapsed > 1.0", in clock ticks.
AnimationDuration == 2
\* ln 2 in 1e-4, used by Exp2.
Ln2 == 6931

RCTMotionManagerStateFree == "Free"
RCTMotionManagerStateLocked == "Locked"
RCTMotionManagerStateUnlocking == "Unlocking"
LockStates ==
  {RCTMotionManagerStateFree, RCTMotionManagerStateLocked,
   RCTMotionManagerStateUnlocking}

(***************************************************************************)
(* Fixed-point arithmetic                                                  *)
(***************************************************************************)
Abs(a) == IF a < 0 THEN -a ELSE a

\* a / b rounded to the nearest integer, for b > 0.
RoundDiv(a, b) == (a + (b \div 2)) \div b

Pow2(n) == IF n <= 0 THEN 1 ELSE 2 ^ n

\* atan(2^-i) in 1e-7 rad.
AtanTable ==
  << 7853982, 4636476, 2449787, 1243550, 624188, 312398, 156237, 78123,
     39062, 19531, 9766, 4883, 2441, 1221, 610, 305 >>

RECURSIVE Cordic(_, _, _, _)
\* Vectoring-mode CORDIC: rotates (x, y), x >= 0, onto the x axis and
\* accumulates the angle in z (1e-7 rad).
Cordic(x, y, z, i) ==
  IF i > Len(AtanTable) THEN z
  ELSE IF y = 0 THEN z
  ELSE IF y > 0
    THEN Cordic(x + y \div Pow2(i - 1), y - x \div Pow2(i - 1),
                z + AtanTable[i], i + 1)
    ELSE Cordic(x - y \div Pow2(i - 1), y + x \div Pow2(i - 1),
                z - AtanTable[i], i + 1)

\* atan2(y, x) of <math.h>, result in 1e-4 rad, in (-Pi, Pi].
Atan2(y, x) ==
  IF x = 0 /\ y = 0 THEN 0
  ELSE IF x >= 0
    THEN RoundDiv(Cordic(x * 1024, y * 1024, 0, 1), 1000)
    ELSE IF y >= 0
      THEN RoundDiv(PiFine + Cordic(-x * 1024, -y * 1024, 0, 1), 1000)
      ELSE RoundDiv(Cordic(-x * 1024, -y * 1024, 0, 1) - PiFine, 1000)

\* An angle (1e-4 rad) reduced to [-Pi, Pi].
ReduceAngle(a) ==
  LET r == a % (2 * Pi)
  IN IF r > Pi THEN r - 2 * Pi ELSE r

RECURSIVE TaylorSum(_, _, _, _, _)
\* sum of the series whose k-th term is term and whose next term is
\* -term * x * x / ((n + 1) * (n + 2)), n the degree of term.
TaylorSum(x, term, n, acc, steps) ==
  IF steps = 0 \/ term = 0 THEN acc + term
  ELSE LET t1 == RoundDiv(term * x, AngleScale * (n + 1))
           t2 == RoundDiv(t1 * x, AngleScale * (n + 2))
       IN TaylorSum(x, -t2, n + 2, acc + term, steps - 1)

\* sin and cos of <math.h>; argument and result in 1e-4.
Sin(a) == LET x == ReduceAngle(a) IN TaylorSum(x, x, 1, 0, 12)
Cos(a) == LET x == ReduceAngle(a) IN TaylorSum(x, AngleScale, 0, 0, 12)

RECURSIVE ExpSum(_, _, _, _, _)
\* sum of u^k / k!, the series of e^u, for 0 <= u < 1.
ExpSum(u, term, k, acc, steps) ==
  IF steps = 0 \/ term = 0 THEN acc + term
  ELSE ExpSum(u, RoundDiv(term * u, AngleScale * (k + 1)), k + 1,
              acc + term, steps - 1)

\* exp2 of <math.h>; argument and result in 1e-4.
Exp2(y) ==
  LET n == y \div AngleScale
      frac == y - n * AngleScale
      mant == ExpSum(RoundDiv(frac * Ln2, AngleScale), AngleScale, 0, 0, 10)
  IN IF n >= 0 THEN mant * Pow2(n) ELSE RoundDiv(mant, Pow2(-n))

(***************************************************************************)
(* Inputs                                                                  *)
(***************************************************************************)
\* CMDeviceMotion * _Nullable: nil, or a sample carrying motion.gravity.
NilMotion == [nil |-> TRUE, x |-> 0, y |-> 0]
Gravity(gx, gy) == [nil |-> FALSE, x |-> gx, y |-> gy]

\* The samples the sensor delivers in the model: nil, a flat reading just
\* under the 0.2 threshold, and two tilted ones.
Motions ==
  {NilMotion, Gravity(-199, 199), Gravity(600, 100), Gravity(-600, 100)}

\* Widths and heights given to initWithVideoWidth:...: negative, zero and
\* two positive ones.
Dimensions == {-16, 0, 9, 16}

\* Rotations given to the transform harness: none, a lock angle, a quarter
\* turn.
BuilderRotations == {0, kMaxLockAngle, -(Pi \div 2)}

\* The callback props of the Video component whose handler only forwards.
PlainCallbacks ==
  {"onLoadStart",
   "onLoad",
   "onError",
   "onProgress",
   "onEnd",
   "onTimedMetadata",
   "onFullscreenPlayerWillPresent",
   "onFullscreenPlayerDidPresent",
   "onFullscreenPlayerWillDismiss",
   "onFullscreenPlayerDidDismiss",
   "onReadyForDisplay",
   "onPlaybackStalled",
   "onPlaybackResume",
   "onAudioBecomingNoisy",
   "onAudioFocusChanged",
   "onBuffer"}

Callbacks == PlainCallbacks \cup {"onSeek", "onPlaybackRateChange"}

PropNames == Callbacks \cup {"poster"}

\* The props a Video component is given in the model: none, any single one,
\* all of them.
PropsChoices == {{}} \cup {{n} : n \in PropNames} \cup {PropNames}

\* event.nativeEvent.playbackRate: paused, normal, double speed.
PlaybackRates == {0, 1, 2}

\* The handler given to startDeviceMotionUpdatesWithHandler: is a block
\* (TRUE) or nil (FALSE).
Handlers == BOOLEAN

\* A raw angle of -3.0 rad, the phone held almost upside down.
NearlyUpsideDown == -30000

\* Raw angles given to the quantizer harness: the two lock angles, their
\* midpoint, the neighbours of the three, -3.0 rad, and a grid over
\* [-2 Pi, 0.5].
QAngles ==
  {a + d : a \in {kMinLockAngle, kMaxLockAngle,
                  (kMinLockAngle + kMaxLockAngle) \div 2},
           d \in {-1, 0, 1}}
    \cup {NearlyUpsideDown}
    \cup {-2 * Pi + 1900 * k : k \in 0..QGrid}

(***************************************************************************)
(* State                                                                   *)
(***************************************************************************)
VARIABLES
  lockState,                     \* _lockState
  lastX, lastY,                  \* __block lastX, lastY of the sensor block
  initialRotationWhenUnlocking,  \* _initialRotationWhenUnlocking
  rotationDeltaForUnlocking,     \* _rotationDeltaForUnlocking
  timeElapsed,                   \* CACurrentMediaTime() - _animationStartTime
  animatorSamplers,              \* display links still in the run loop
  updatesHandler,                \* _updatesHandler / handler is non-nil
  motionUpdates,                 \* CMMotionManager is delivering updates
  sensorTicks,                   \* sensor callbacks delivered so far
  recorded,                      \* value given to record: by the last step
  delivered,                     \* transform handed to the caller by the last step
  displayed,                     \* last transform handed to the caller
  lastOp,                        \* the last operation and its sample
  qState, qRaw, qOut,            \* quantizer harness: inputs and result
  videoWidth, videoHeight,       \* _videoWidth, _videoHeight
  viewWidth, viewHeight,         \* _viewWidth, _viewHeight
  bRotation, built,              \* transform harness: argument and result
  showPoster,                    \* this.state.showPoster of the Video component
  props,                         \* the props of the Video component that are set
  nativeEvent,                   \* the last native event handled
  forwarded                      \* the callback of props the last handler looked up

engineVars ==
  << lockState, lastX, lastY, initialRotationWhenUnlocking,
     rotationDeltaForUnlocking, timeElapsed, animatorSamplers,
     updatesHandler, motionUpdates, sensorTicks, recorded, delivered,
     displayed, lastOp >>
qVars == << qState, qRaw, qOut >>
bVars == << videoWidth, videoHeight, viewWidth, viewHeight, bRotation, built >>
harnessVars == << qVars, bVars >>
videoVars == << showPoster, props, nativeEvent, forwarded >>
vars == << engineVars, harnessVars, videoVars >>

NoTransform == [src |-> "none", rotation |-> 0]
NoRecord == [calls |-> 0, degrees |-> 0]
NoResult == [done |-> FALSE, value |-> 0]
NoScale == [finite |-> TRUE, value |-> 0]
NoEvent == [name |-> "none", playbackRate |-> 0]
NotForwarded == [callback |-> "none", called |-> FALSE]
NotBuilt == [done |-> FALSE, error |-> FALSE, scale |-> NoScale, rotation |-> 0]
Op(name, m) == [op |-> name, motion |-> m]

(***************************************************************************)
(* Pure functions of RCTMotionManager                                      *)
(***************************************************************************)
\* transformWithRotation: the rotation component of the CGAffineTransform
\* (the scale comes from OvalCalculator, outside this source).
transformWithRotation(rotation) == rotation

\* OvalCalculator in fit mode: the least uniform scale at which the video
\* rectangle, turned by the rotation, covers the view rectangle, in 1e-4; a
\* division by a zero video dimension gives an infinite or NaN double.
get_scale(vwWidth, vwHeight, vdWidth, vdHeight, rotation) ==
  LET c == Abs(Cos(ReduceAngle(rotation)))
      s == Abs(Sin(ReduceAngle(rotation)))
      across == (vwWidth * c + vwHeight * s) \div vdWidth
      along == (vwWidth * s + vwHeight * c) \div vdHeight
  IN IF vdWidth = 0 \/ vdHeight = 0
     THEN [finite |-> FALSE, value |-> 0]
     ELSE [finite |-> TRUE,
           value |-> IF across > along THEN across ELSE along]

\* transformWithRotation: with its scale; it has no failing path.
BuildTransform(vwWidth, vwHeight, vdWidth, vdHeight, rotation) ==
  [done |-> TRUE, error |-> FALSE,
   scale |-> get_scale(vwWidth, vwHeight, vdWidth, vdHeight, rotation),
   rotation |-> transformWithRotation(rotation)]

Emit(source, rotation) ==
  [src |-> source, rotation |-> transformWithRotation(rotation)]

\* Mutant: the threshold is 0.02 instead of 0.2.
MutIsFlatThresholdTooSmall(gravity) ==
  Abs(gravity.x) < FlatThreshold \div 10
    /\ Abs(gravity.y) < FlatThreshold \div 10

isFlatWithGravity(gravity) ==
  Abs(gravity.x) < FlatThreshold /\ Abs(gravity.y) < FlatThreshold

\* decay = minDecay + fabs(gravity.x) * (1 - minDecay)
Decay(gravity) ==
  minDecay + RoundDiv(Abs(gravity.x) * (GravityScale - minDecay), GravityScale)

\* last = g * decay + last * (1 - decay)
Smooth(g, last, decay) ==
  RoundDiv(g * decay + last * (GravityScale - decay), GravityScale)

\* Mutant: M_PI is not subtracted.
MutRawRotationWithoutPi(x, y) == Atan2(x, y)

\* rawRotation = atan2(lastX, lastY) - M_PI
RawRotation(x, y) == Atan2(x, y) - Pi

\* Mutant: the midpoint is taken to be the upper lock angle.
MutMidLockAngleIsMax == kMaxLockAngle

midLockAngle == (kMinLockAngle + kMaxLockAngle) \div 2

\* Mutant: the lockState test is missing.
MutRotationIgnoringLockState(state, rawRotaton) ==
  IF rawRotaton > kMinLockAngle /\ rawRotaton <= midLockAngle
  THEN kMinLockAngle
  ELSE IF rawRotaton > midLockAngle /\ rawRotaton < kMaxLockAngle
       THEN kMaxLockAngle
       ELSE rawRotaton

rotationWithLockState(state, rawRotaton) ==
  IF state = RCTMotionManagerStateLocked
  THEN IF rawRotaton > kMinLockAngle /\ rawRotaton <= midLockAngle
       THEN kMinLockAngle
       ELSE IF rawRotaton > midLockAngle /\ rawRotaton < kMaxLockAngle
            THEN kMaxLockAngle
            ELSE rawRotaton
  ELSE rawRotaton

\* Mutant: a negative angle is not brought up by a full turn.
MutNormalizedDegreesWithoutWrap(displayRotation) ==
  RoundDiv(displayRotation * 18000, Pi)

\* normalizedDisplayRotationDegrees, in 1e-2 degree.
NormalizedDegrees(displayRotation) ==
  IF displayRotation < 0
  THEN RoundDiv((displayRotation + 2 * Pi) * 18000, Pi)
  ELSE RoundDiv(displayRotation * 18000, Pi)

\* springAnimationFactorWithTimeElapsed:, timeElapsed in clock ticks.
\*   -exp2(-6t)/2 * (-2*exp2(6t) + sin(12t) + 2*cos(12t))
\* evaluated as 1 - exp2(-6t) * (sin(12t)/2 + cos(12t)), the same value
\* with exp2(-6t) * exp2(6t) = 1 multiplied out, which keeps the fixed-point
\* intermediates small.
springAnimationFactorWithTimeElapsed(elapsed) ==
  LET t6 == (6 * AngleScale * elapsed) \div TicksPerSecond
      t12 == (12 * AngleScale * elapsed) \div TicksPerSecond
      osc == RoundDiv(Sin(t12), 2) + Cos(t12)
  IN AngleScale - RoundDiv(Exp2(-t6) * osc, AngleScale)

\* The factor at every value the clock of the model can show, computed once.
SpringFactor ==
  [e \in 0..MaxElapsed |-> springAnimationFactorWithTimeElapsed(e)]

\* Mutant: the delta term is dropped.
MutAnimatedRotationWithoutDelta(initial, delta, factor) == initial

\* rotation = _initialRotationWhenUnlocking + _rotationDeltaForUnlocking * factor
AnimatedRotation(initial, delta, factor) ==
  initial + RoundDiv(delta * factor, AngleScale)

\* Mutant: only a tick in the first period after 1.0 ends the animation.
MutAnimationOverOnlyJustAfter(elapsed) == elapsed = AnimationDuration + 1

\* timeElapsed > 1.0
AnimationOver(elapsed) == elapsed > AnimationDuration

(***************************************************************************)
(* Initial state: after initWithVideoWidth:... (ivars are zeroed)          *)
(***************************************************************************)
QInit ==
  qState = RCTMotionManagerStateFree /\ qRaw = 0 /\ qOut = NoResult

\* The dimensions of a 16:9 video in a 9:16 view.
BInit ==
  /\ videoWidth = 16
  /\ videoHeight = 9
  /\ viewWidth = 9
  /\ viewHeight = 16
  /\ bRotation = 0
  /\ built = NotBuilt

EngineInit ==
  /\ lockState = RCTMotionManagerStateFree
  /\ lastX = LastInit
  /\ lastY = LastInit
  /\ initialRotationWhenUnlocking = 0
  /\ rotationDeltaForUnlocking = 0
  /\ timeElapsed = 0
  /\ animatorSamplers = 0
  /\ updatesHandler = FALSE
  /\ motionUpdates = FALSE
  /\ sensorTicks = 0
  /\ recorded = NoRecord
  /\ delivered = NoTransform
  /\ displayed = NoTransform
  /\ lastOp = Op("init", NilMotion)

\* constructor(props) of the Video component.
constructor(p) ==
  /\ showPoster = TRUE
  /\ props = p
  /\ nativeEvent = NoEvent
  /\ forwarded = NotForwarded

VideoInit == constructor({})

Init == EngineInit /\ QInit /\ BInit /\ VideoInit

(***************************************************************************)
(* Operations                                                              *)
(***************************************************************************)
\* startDeviceMotionUpdatesWithHandler:, also when called again after a stop.
startDeviceMotionUpdatesWithHandler(handler) ==
  /\ ~motionUpdates
  /\ updatesHandler' = handler
  /\ lastX' = LastInit
  /\ lastY' = LastInit
  /\ motionUpdates' = TRUE
  /\ recorded' = NoRecord
  /\ delivered' = NoTransform
  /\ lastOp' = Op("start", NilMotion)
  /\ UNCHANGED << lockState, initialRotationWhenUnlocking,
                  rotationDeltaForUnlocking, timeElapsed,
                  animatorSamplers, sensorTicks, displayed, harnessVars, videoVars >>

stopDeviceMotionUpdates ==
  /\ motionUpdates
  /\ motionUpdates' = FALSE
  /\ recorded' = NoRecord
  /\ delivered' = NoTransform
  /\ lastOp' = Op("stop", NilMotion)
  /\ UNCHANGED << lockState, lastX, lastY, initialRotationWhenUnlocking,
                  rotationDeltaForUnlocking, timeElapsed,
                  animatorSamplers, updatesHandler, sensorTicks, displayed,
                  harnessVars, videoVars >>

\* Mutant: the Unlocking guard is missing.
MutSensorDropsWithoutUnlockingGuard(motion) ==
  motion.nil \/ isFlatWithGravity(motion)

\* The guards of the sensor block: the tick is dropped.
SensorDrops(motion) ==
  \/ lockState = RCTMotionManagerStateUnlocking
  \/ motion.nil
  \/ isFlatWithGravity(motion)

\* The block given to startDeviceMotionUpdatesToQueue:withHandler:.
SensorHandler(motion) ==
  /\ motionUpdates
  /\ sensorTicks < MaxSensorTicks
  /\ lastOp' = Op("sensor", motion)
  /\ IF SensorDrops(motion)
     THEN /\ delivered' = NoTransform
          /\ recorded' = NoRecord
          /\ UNCHANGED << lastX, lastY, initialRotationWhenUnlocking,
                          rotationDeltaForUnlocking, sensorTicks, displayed >>
     ELSE LET decay == Decay(motion)
              newX == Smooth(motion.x, lastX, decay)
              newY == Smooth(motion.y, lastY, decay)
              rawRotation == RawRotation(newX, newY)
              displayRotation == rotationWithLockState(lockState, rawRotation)
          IN /\ lastX' = newX
             /\ lastY' = newY
             /\ initialRotationWhenUnlocking' = displayRotation
             /\ rotationDeltaForUnlocking' = rawRotation - displayRotation
             /\ recorded' = [calls |-> 1,
                             degrees |-> NormalizedDegrees(displayRotation)]
             /\ sensorTicks' = sensorTicks + 1
             /\ IF updatesHandler
                THEN /\ delivered' = Emit("sensor", displayRotation)
                     /\ displayed' = Emit("sensor", displayRotation)
                ELSE /\ delivered' = NoTransform
                     /\ UNCHANGED displayed
  /\ UNCHANGED << lockState, timeElapsed, animatorSamplers,
                  updatesHandler, motionUpdates, harnessVars, videoVars >>

lock ==
  /\ lockState' = RCTMotionManagerStateLocked
  /\ recorded' = NoRecord
  /\ delivered' = NoTransform
  /\ lastOp' = Op("lock", NilMotion)
  /\ UNCHANGED << lastX, lastY, initialRotationWhenUnlocking,
                  rotationDeltaForUnlocking, timeElapsed,
                  animatorSamplers, updatesHandler, motionUpdates,
                  sensorTicks, displayed, harnessVars, videoVars >>

\* unLock restarts the animation clock and adds a new display link to the
\* run loop; a link added by an earlier call stays there until its own
\* sampleAnimator: invalidates it.
unLock ==
  /\ animatorSamplers < MaxSamplers
  /\ lockState' = RCTMotionManagerStateUnlocking
  /\ timeElapsed' = 0
  /\ animatorSamplers' = animatorSamplers + 1
  /\ recorded' = NoRecord
  /\ delivered' = NoTransform
  /\ lastOp' = Op("unLock", NilMotion)
  /\ UNCHANGED << lastX, lastY, initialRotationWhenUnlocking,
                  rotationDeltaForUnlocking, updatesHandler, motionUpdates,
                  sensorTicks, displayed, harnessVars, videoVars >>

\* sampleAnimator:, called by any display link still in the run loop.
sampleAnimator ==
  /\ animatorSamplers > 0
  /\ LET factor == SpringFactor[timeElapsed]
         rotation == AnimatedRotation(initialRotationWhenUnlocking,
                                      rotationDeltaForUnlocking, factor)
     IN IF updatesHandler
        THEN /\ delivered' = Emit("animator", rotation)
             /\ displayed' = Emit("animator", rotation)
        ELSE /\ delivered' = NoTransform
             /\ UNCHANGED displayed
  /\ IF AnimationOver(timeElapsed)
     THEN /\ animatorSamplers' = animatorSamplers - 1
          /\ lockState' = RCTMotionManagerStateFree
     ELSE UNCHANGED << animatorSamplers, lockState >>
  /\ recorded' = NoRecord
  /\ lastOp' = Op("animator", NilMotion)
  /\ UNCHANGED << lastX, lastY, initialRotationWhenUnlocking,
                  rotationDeltaForUnlocking, timeElapsed,
                  updatesHandler, motionUpdates, sensorTicks, harnessVars, videoVars >>

\* CACurrentMediaTime() advances; the clock is read only by sampleAnimator:,
\* so it is followed only while a display link is in the run loop.
AdvanceTime ==
  /\ animatorSamplers > 0
  /\ timeElapsed < MaxElapsed
  /\ timeElapsed' = timeElapsed + 1
  /\ recorded' = NoRecord
  /\ delivered' = NoTransform
  /\ lastOp' = Op("time", NilMotion)
  /\ UNCHANGED << lockState, lastX, lastY, initialRotationWhenUnlocking,
                  rotationDeltaForUnlocking, animatorSamplers,
                  updatesHandler, motionUpdates, sensorTicks, displayed,
                  harnessVars, videoVars >>

Next ==
  \/ \E handler \in Handlers : startDeviceMotionUpdatesWithHandler(handler)
  \/ stopDeviceMotionUpdates
  \/ \E motion \in Motions : SensorHandler(motion)
  \/ lock
  \/ unLock
  \/ sampleAnimator
  \/ AdvanceTime

Spec == Init /\ [][Next]_vars

\* The display links fire and the clock advances for as long as they can.
FairSpec == Spec /\ WF_vars(sampleAnimator) /\ WF_vars(AdvanceTime)

(***************************************************************************)
(* Quantizer harness: rotationWithLockState:rawRotation: applied to every  *)
(* lock state and every raw angle of QAngles.                              *)
(***************************************************************************)
QuantizerInit ==
  /\ EngineInit
  /\ BInit
  /\ VideoInit
  /\ qState \in LockStates
  /\ qRaw \in QAngles
  /\ qOut = NoResult

Quantize ==
  /\ ~qOut.done
  /\ qOut' = [done |-> TRUE, value |-> rotationWithLockState(qState, qRaw)]
  /\ UNCHANGED << engineVars, qState, qRaw, bVars, videoVars >>

QuantizerNext == Quantize

QuantizerSpec == QuantizerInit /\ [][QuantizerNext]_vars

(***************************************************************************)
(* Transform harness: initWithVideoWidth:... with every combination of     *)
(* Dimensions, then transformWithRotation: handed to the caller.           *)
(***************************************************************************)
BuilderInit ==
  /\ EngineInit
  /\ QInit
  /\ VideoInit
  /\ videoWidth \in Dimensions
  /\ videoHeight \in Dimensions
  /\ viewWidth \in Dimensions
  /\ viewHeight \in Dimensions
  /\ bRotation \in BuilderRotations
  /\ built = NotBuilt

Build ==
  /\ ~built.done
  /\ built' = BuildTransform(viewWidth, viewHeight, videoWidth, videoHeight,
                             bRotation)
  /\ UNCHANGED << engineVars, qVars, videoWidth, videoHeight, viewWidth,
                  viewHeight, bRotation, videoVars >>

BuilderNext == Build

BuilderSpec == BuilderInit /\ [][BuilderNext]_vars

(***************************************************************************)
(* The Video component: its showPoster state and the handlers of the       *)
(* native events.                                                          *)
(***************************************************************************)
\* if (this.props.onX) { this.props.onX(...) }
Call(callback) == [callback |-> callback, called |-> callback \in props]

\* A handler that only forwards the event to its callback.
PlainHandler(callback) ==
  /\ nativeEvent' = [name |-> callback, playbackRate |-> 0]
  /\ forwarded' = Call(callback)
  /\ UNCHANGED << showPoster, props, engineVars, harnessVars >>

_onLoadStart == PlainHandler("onLoadStart")
_onLoad == PlainHandler("onLoad")
_onError == PlainHandler("onError")
_onProgress == PlainHandler("onProgress")
_onEnd == PlainHandler("onEnd")
_onTimedMetadata == PlainHandler("onTimedMetadata")
_onFullscreenPlayerWillPresent == PlainHandler("onFullscreenPlayerWillPresent")
_onFullscreenPlayerDidPresent == PlainHandler("onFullscreenPlayerDidPresent")
_onFullscreenPlayerWillDismiss == PlainHandler("onFullscreenPlayerWillDismiss")
_onFullscreenPlayerDidDismiss == PlainHandler("onFullscreenPlayerDidDismiss")
_onReadyForDisplay == PlainHandler("onReadyForDisplay")
_onPlaybackStalled == PlainHandler("onPlaybackStalled")
_onPlaybackResume == PlainHandler("onPlaybackResume")
_onAudioBecomingNoisy == PlainHandler("onAudioBecomingNoisy")
_onAudioFocusChanged == PlainHandler("onAudioFocusChanged")
_onBuffer == PlainHandler("onBuffer")

_onSeek ==
  /\ nativeEvent' = [name |-> "onSeek", playbackRate |-> 0]
  /\ showPoster' = IF showPoster THEN FALSE ELSE showPoster
  /\ forwarded' = Call("onSeek")
  /\ UNCHANGED << props, engineVars, harnessVars >>

\* Mutant: the playback rate is not tested.
MutRateChangeHidesPosterAtAnyRate(show, playbackRate) == show

\* this.state.showPoster && event.nativeEvent.playbackRate !== 0
RateChangeHidesPoster(show, playbackRate) == show /\ playbackRate # 0

_onPlaybackRateChange(playbackRate) ==
  /\ nativeEvent' = [name |-> "onPlaybackRateChange",
                     playbackRate |-> playbackRate]
  /\ showPoster' = IF RateChangeHidesPoster(showPoster, playbackRate)
                   THEN FALSE
                   ELSE showPoster
  /\ forwarded' = Call("onPlaybackRateChange")
  /\ UNCHANGED << props, engineVars, harnessVars >>

\* render: the poster image is part of the view.
PosterRendered == "poster" \in props /\ showPoster

VideoSpecInit ==
  /\ EngineInit
  /\ QInit
  /\ BInit
  /\ \E p \in PropsChoices : constructor(p)

VideoNext ==
  \/ _onLoadStart
  \/ _onLoad
  \/ _onError
  \/ _onProgress
  \/ _onEnd
  \/ _onTimedMetadata
  \/ _onFullscreenPlayerWillPresent
  \/ _onFullscreenPlayerDidPresent
  \/ _onFullscreenPlayerWillDismiss
  \/ _onFullscreenPlayerDidDismiss
  \/ _onReadyForDisplay
  \/ _onPlaybackStalled
  \/ _onPlaybackResume
  \/ _onAudioBecomingNoisy
  \/ _onAudioFocusChanged
  \/ _onBuffer
  \/ _onSeek
  \/ \E playbackRate \in PlaybackRates : _onPlaybackRateChange(playbackRate)

VideoSpec == VideoSpecInit /\ [][VideoNext]_vars

(***************************************************************************)
(* Properties                                                              *)
(***************************************************************************)
Tilted(motion) ==
  ~motion.nil
    /\ ~(Abs(motion.x) < FlatThreshold /\ Abs(motion.y) < FlatThreshold)

\* C1: after stopDeviceMotionUpdates returns (and until the updates are
\* started again) no step hands a transform to the caller, whichever tick
\* source it comes from.
C1_NoTransformAfterStop ==
  [][~motionUpdates => delivered' = NoTransform]_vars

\* C2: while the lock state is Unlocking a sensor tick, whatever its sample,
\* hands no transform to the caller and leaves the displayed transform as it
\* is; a transform handed over in that state comes from an animation tick.
C2_SensorSilentWhileUnlocking ==
  [][lockState = RCTMotionManagerStateUnlocking =>
       /\ (lastOp'.op = "sensor" =>
             delivered' = NoTransform /\ displayed' = displayed)
       /\ (delivered' # NoTransform => delivered'.src = "animator")]_vars

C2_Witness ==
  /\ lockState = RCTMotionManagerStateUnlocking
  /\ lastOp.op = "sensor"
  /\ Tilted(lastOp.motion)
  /\ updatesHandler
  /\ displayed.src # "none"

\* C3: with display links that keep firing and a clock that keeps advancing,
\* once unLock has been called then, unless it is called again, every display
\* link is eventually invalidated with the lock state Free, however late the
\* first tick past 1.0 comes.
C3_UnlockEndsFree ==
  (animatorSamplers > 0 /\ lastOp.op # "unLock") ~>
    \/ animatorSamplers = 0 /\ lockState = RCTMotionManagerStateFree
    \/ lastOp.op = "unLock"

C3_Witness ==
  /\ lastOp.op = "animator"
  /\ timeElapsed > AnimationDuration + 1
  /\ animatorSamplers = 0
  /\ lockState = RCTMotionManagerStateFree

\* C4 (its "in particular" clause): once the lock state is Locked it stays
\* Locked until unLock is called, and never moves from Locked to Free.
C4_LockedUntilUnlock ==
  [][lockState = RCTMotionManagerStateLocked =>
       \/ lockState' = RCTMotionManagerStateLocked
       \/ lockState' = RCTMotionManagerStateUnlocking /\ lastOp'.op = "unLock"
    ]_vars

\* C5: a lock request made while the lock state is Unlocking leaves the
\* state Unlocking.
C5_LockIgnoredWhileUnlocking ==
  [][lockState = RCTMotionManagerStateUnlocking /\ lastOp'.op = "lock" =>
       lockState' = RCTMotionManagerStateUnlocking]_vars

\* C6: every call of unLock made once a sample has been smoothed (so that
\* there is a raw angle) and a transform has been handed to the handler leaves
\* the state Unlocking with the initial angle of the animation equal to the
\* rotation of that last transform, and the delta equal to the raw angle
\* minus the initial angle.
C6_UnlockCapturesDisplayedAngle ==
  [][(lastOp'.op = "unLock"
        /\ updatesHandler
        /\ displayed.src # "none"
        /\ << lastX, lastY >> # << LastInit, LastInit >>)
     => (/\ lockState' = RCTMotionManagerStateUnlocking
         /\ initialRotationWhenUnlocking' = displayed.rotation
         /\ rotationDeltaForUnlocking' =
              RawRotation(lastX, lastY) - initialRotationWhenUnlocking')
    ]_vars

\* C7 as stated: an animation tick that observes an elapsed time over 1.0
\* hands no animated transform to the caller.
C7_NoAnimatedValuePastDuration ==
  [][lastOp'.op = "animator" /\ timeElapsed > AnimationDuration =>
       delivered'.src # "animator"]_vars

\* C7 as amended: an animation tick that observes an elapsed time over 1.0
\* still hands the animated value initial + delta * f(elapsed) to the handler,
\* when there is one, and then its display link is invalidated and the lock
\* state is Free.
C7_LastTickDeliversAnimatedValue ==
  [][lastOp'.op = "animator" /\ timeElapsed > AnimationDuration =>
       /\ (updatesHandler =>
             /\ delivered'.src = "animator"
             /\ delivered'.rotation =
                  initialRotationWhenUnlocking
                    + RoundDiv(rotationDeltaForUnlocking
                                 * SpringFactor[timeElapsed],
                               AngleScale))
       /\ lockState' = RCTMotionManagerStateFree
       /\ animatorSamplers' = animatorSamplers - 1]_vars

C7_Witness ==
  /\ lastOp.op = "animator"
  /\ timeElapsed = AnimationDuration + 2
  /\ delivered.src = "animator"
  /\ rotationDeltaForUnlocking # 0
  /\ delivered.rotation # RawRotation(lastX, lastY)
  /\ lockState = RCTMotionManagerStateFree

\* C8: a sensor tick whose sample is nil, or whose gravity has |x| < 0.2 and
\* |y| < 0.2, changes neither the smoothed gravity nor the lock state nor
\* the animation context, records nothing and hands over no transform.
C8_NilOrFlatTickHasNoEffect ==
  [][lastOp'.op = "sensor" /\ ~Tilted(lastOp'.motion) =>
       /\ UNCHANGED << lastX, lastY, lockState, initialRotationWhenUnlocking,
                       rotationDeltaForUnlocking, displayed >>
       /\ recorded' = NoRecord
       /\ delivered' = NoTransform]_vars

C8_Witness ==
  /\ lastOp.op = "sensor"
  /\ ~lastOp.motion.nil
  /\ ~Tilted(lastOp.motion)
  /\ lockState = RCTMotionManagerStateLocked
  /\ sensorTicks > 0
  /\ displayed.src = "sensor"

\* C9 as stated: while the lock state is Unlocking a sensor tick with a
\* non-nil, non-flat sample updates the smoothed gravity.
C9_SmoothingContinuesWhileUnlocking ==
  [][(lockState = RCTMotionManagerStateUnlocking
        /\ lastOp'.op = "sensor"
        /\ Tilted(lastOp'.motion))
     => (/\ lastX' = Smooth(lastOp'.motion.x, lastX, Decay(lastOp'.motion))
         /\ lastY' = Smooth(lastOp'.motion.y, lastY, Decay(lastOp'.motion)))
    ]_vars

\* C9 as amended: while the lock state is Unlocking every sensor tick leaves
\* the smoothed gravity, and with it the raw angle, unchanged; in the other
\* states a non-nil, non-flat tick updates it.
C9_SmoothingPausedWhileUnlocking ==
  [][lastOp'.op = "sensor" =>
       IF lockState = RCTMotionManagerStateUnlocking
       THEN UNCHANGED << lastX, lastY >>
       ELSE (Tilted(lastOp'.motion) =>
               /\ lastX' = Smooth(lastOp'.motion.x, lastX, Decay(lastOp'.motion))
               /\ lastY' = Smooth(lastOp'.motion.y, lastY, Decay(lastOp'.motion)))
    ]_vars

C9_Witness ==
  /\ lockState = RCTMotionManagerStateUnlocking
  /\ lastOp.op = "sensor"
  /\ Tilted(lastOp.motion)
  /\ sensorTicks > 0
  /\ lastX # Smooth(lastOp.motion.x, lastX, Decay(lastOp.motion))

\* C10: the quantizer returns the lock angle itself when the raw angle is
\* exactly kMinLockAngle or kMaxLockAngle in state Locked, the raw angle when
\* it lies outside (kMinLockAngle, kMaxLockAngle) in state Locked, and the
\* raw angle, whatever it is, in the other states.
C10_QuantizerBoundaries ==
  qOut.done =>
    /\ (qState = RCTMotionManagerStateLocked /\ qRaw = kMinLockAngle
          => qOut.value = kMinLockAngle)
    /\ (qState = RCTMotionManagerStateLocked /\ qRaw = kMaxLockAngle
          => qOut.value = kMaxLockAngle)
    /\ (qState = RCTMotionManagerStateLocked
          /\ (qRaw < kMinLockAngle \/ qRaw > kMaxLockAngle)
          => qOut.value = qRaw)
    /\ (qState # RCTMotionManagerStateLocked => qOut.value = qRaw)

C10_Witness ==
  /\ qOut.done
  /\ qState = RCTMotionManagerStateLocked
  /\ qRaw = kMinLockAngle
  /\ qOut.value = kMinLockAngle

\* C11 as stated: in state Locked a raw angle of -3.0 rad is displayed as
\* kMinLockAngle.
C11_UpsideDownSnapsToMin ==
  (qOut.done /\ qState = RCTMotionManagerStateLocked
     /\ qRaw = NearlyUpsideDown)
  => qOut.value = kMinLockAngle

\* C11 as amended: -3.0 rad lies above the midpoint -3.1415 of the band, so
\* in state Locked it is displayed as kMaxLockAngle; the raw angles displayed
\* as kMinLockAngle are those in (kMinLockAngle, midLockAngle].
C11_UpsideDownSnapsToMax ==
  (qOut.done /\ qState = RCTMotionManagerStateLocked)
  => /\ (qRaw = NearlyUpsideDown => qOut.value = kMaxLockAngle)
     /\ (qOut.value = kMinLockAngle
           <=> (qRaw >= kMinLockAngle /\ qRaw <= midLockAngle))

C11_Witness ==
  /\ qOut.done
  /\ qState = RCTMotionManagerStateLocked
  /\ qRaw = NearlyUpsideDown
  /\ qRaw > midLockAngle
  /\ qOut.value = kMaxLockAngle

\* C12 as stated: the rotation of every transform handed to the caller, by a
\* sensor tick or by an animation tick, lies in (-Pi, Pi].
C12_RotationWithinHalfTurn ==
  delivered.src # "none" =>
    (delivered.rotation > -Pi /\ delivered.rotation <= Pi)

\* C12 as amended: the rotation of every transform handed to the caller, by
\* a sensor tick or by an animation tick, lies in [-2 Pi, 0].
C12_RotationWithinNegativeTurn ==
  delivered.src # "none" =>
    (delivered.rotation >= -2 * Pi /\ delivered.rotation <= 0)

C12_Witness ==
  /\ delivered.src = "animator"
  /\ delivered.rotation < -Pi
  /\ delivered.rotation # initialRotationWhenUnlocking
  /\ delivered.rotation # RawRotation(lastX, lastY)

\* C13 as stated: kMinLockAngle < midLockAngle < kMaxLockAngle, and a lock
\* angle the quantizer snaps a raw angle to lies strictly within (-Pi, Pi).
C13_LockAnglesWithinHalfTurn ==
  (qOut.done /\ qState = RCTMotionManagerStateLocked /\ qOut.value # qRaw)
  => /\ kMinLockAngle < midLockAngle
     /\ midLockAngle < kMaxLockAngle
     /\ qOut.value \in {kMinLockAngle, kMaxLockAngle}
     /\ qOut.value > -Pi
     /\ qOut.value < Pi

\* C13 as amended: kMinLockAngle < midLockAngle < kMaxLockAngle;
\* kMaxLockAngle lies in (-Pi, 0) and kMinLockAngle in (-2 Pi, -Pi), so a
\* lock angle the quantizer snaps a raw angle to lies in (-2 Pi, 0).
C13_LockAnglesWithinNegativeTurn ==
  (qOut.done /\ qState = RCTMotionManagerStateLocked /\ qOut.value # qRaw)
  => /\ kMinLockAngle < midLockAngle
     /\ midLockAngle < kMaxLockAngle
     /\ qOut.value \in {kMinLockAngle, kMaxLockAngle}
     /\ kMaxLockAngle > -Pi /\ kMaxLockAngle < 0
     /\ kMinLockAngle > -2 * Pi /\ kMinLockAngle < -Pi

C13_Witness ==
  /\ qOut.done
  /\ qState = RCTMotionManagerStateLocked
  /\ qRaw = midLockAngle
  /\ qOut.value = kMinLockAngle
  /\ qOut.value < -Pi

\* C14: in every reachable state a display link in the run loop implies the
\* lock state Unlocking; in particular none is left when the state is Free.
C14_SamplerOnlyWhileUnlocking ==
  animatorSamplers > 0 => lockState = RCTMotionManagerStateUnlocking

\* C15 as stated: every sensor tick with a non-nil, non-flat sample, in any
\* lock state, calls record: exactly once with a value in [0, 360) degrees.
C15_EveryTiltedTickRecords ==
  [][(lastOp'.op = "sensor" /\ Tilted(lastOp'.motion))
     => (/\ recorded'.calls = 1
         /\ recorded'.degrees >= 0
         /\ recorded'.degrees < 36000)]_vars

\* C15 as amended: a sensor tick with a non-nil, non-flat sample calls
\* record: exactly once, with the displayed angle in degrees in [0, 360]
\* (360 only when an angle just under 0 is rounded up), when the lock state
\* is Free or Locked, and not at all when it is Unlocking.
C15_TiltedTickRecordsUnlessUnlocking ==
  [][(lastOp'.op = "sensor" /\ Tilted(lastOp'.motion))
     => IF lockState = RCTMotionManagerStateUnlocking
        THEN recorded' = NoRecord
        ELSE /\ recorded'.calls = 1
             /\ recorded'.degrees >= 0
             /\ recorded'.degrees <= 36000
             /\ recorded'.degrees =
                  NormalizedDegrees(initialRotationWhenUnlocking')]_vars

C15_Witness ==
  /\ lastOp.op = "sensor"
  /\ Tilted(lastOp.motion)
  /\ lockState = RCTMotionManagerStateLocked
  /\ recorded.calls = 1
  /\ recorded.degrees > 0
  /\ recorded.degrees < 36000
  /\ initialRotationWhenUnlocking = kMinLockAngle

\* C16: a transform asked for when any of the four dimensions is zero or
\* negative is answered by a reported error, and no transform (with a
\* degenerate scale) is handed to the caller.
C16_InvalidDimensionsFailFast ==
  (built.done /\ (videoWidth <= 0 \/ videoHeight <= 0
                    \/ viewWidth <= 0 \/ viewHeight <= 0))
  => (built.error /\ built.scale = NoScale)

\* C17: from unLock until the display link it added is invalidated, no step
\* (sensor tick, lock or any other) changes the initial angle or the delta
\* of the animation.
C17_ContextReadOnlyWhileAnimating ==
  [][animatorSamplers > 0 =>
       UNCHANGED << initialRotationWhenUnlocking,
                    rotationDeltaForUnlocking >>]_vars

\* C18: a transform handed to the caller while the lock state is Locked, by
\* a sensor tick or an animation tick, never has its rotation strictly
\* between kMinLockAngle and kMaxLockAngle.
C18_LockedNeverDeliversInsideBand ==
  [][(lockState = RCTMotionManagerStateLocked /\ delivered'.src # "none")
     => ~(delivered'.rotation > kMinLockAngle
            /\ delivered'.rotation < kMaxLockAngle)]_vars

\* C19: at most one display link of the unlock animation is in the run loop
\* at any time.
C19_AtMostOneSampler ==
  animatorSamplers <= 1

\* C20: showPoster starts true and only ever goes from true to false; it
\* does so on a seek event and on a playback-rate-change event whose rate is
\* not 0, and on nothing else (a rate of 0 and every other event leave it as
\* it is); every event is forwarded to the callback of its name when that
\* prop is set, and to nothing otherwise.
C20_ShowPosterMonotone ==
  /\ showPoster = TRUE
  /\ [][/\ (showPoster' => showPoster)
        /\ (showPoster' # showPoster
              <=> (/\ showPoster
                   /\ \/ nativeEvent'.name = "onSeek"
                      \/ (nativeEvent'.name = "onPlaybackRateChange"
                            /\ nativeEvent'.playbackRate # 0)))
        /\ forwarded' = [callback |-> nativeEvent'.name,
                         called |-> nativeEvent'.name \in props]
        /\ nativeEvent'.name \in Callbacks
        /\ props' = props]_videoVars

C20_Witness ==
  /\ ~showPoster
  /\ ~PosterRendered
  /\ nativeEvent.name = "onPlaybackRateChange"
  /\ nativeEvent.playbackRate # 0
  /\ forwarded = [callback |-> "onPlaybackRateChange", called |-> TRUE]
  /\ "poster" \in props

====
